---- MODULE Spec2Model ----
(***************************************************************************)
(* Model of the schema-driven NetCDF writer of xprecipradarhp_vap_proc     *)
(* (src/sail_hp_src/write_outnc.py): attribute resolution, the time        *)
(* normalizer, the structural pass and the value pass of write_ds_to_nc.   *)
(***************************************************************************)
EXTENDS Integers, Sequences, FiniteSets, TLC

VARIABLES
    pc,         \* position of the write inside write_ds_to_nc
    env,        \* ambient process state read by _update_dod_globals
    schema,     \* what _parse_dod returns for the template (ok = FALSE: it raises)
    config,     \* the caller's RunConfig mapping object (a dict, shared by reference)
    config0,    \* the caller's mapping as it was before the write (history variable)
    ds,         \* the Dataset: vars, attrs, primary timestamp
    dod,        \* the working Schema of this write
    missing,    \* the list _update_dod_globals raises with
    err,        \* the exception write_ds_to_nc ends with ("none": no exception)
    failedAt,   \* the stage that raised
    nc,         \* the output file handle and the variables it holds
    file,       \* the file at output_path on disk
    idx,        \* next entry of config["variable_mapping"] in the value pass
    times,      \* the last result of _get_standardized_times
    parser,     \* the locals of _parse_dod while it reads a template
    retry,      \* attempts at this output path, and a handle an earlier one left
    conc,       \* two writes that were handed the same RunConfig object
    batch       \* a batch run of run_hp.main or batch_process_dask

vars == <<pc, env, schema, config, config0, ds, dod, missing, err, failedAt,
          nc, file, idx, times, parser, retry, conc, batch>>

(***************************************************************************)
(* Values. Array elements, fill values and stored values are records so    *)
(* that numbers and the non-numeric sentinels stay comparable.             *)
(***************************************************************************)
Num(n) == [k |-> "num", v |-> n]
NaN == [k |-> "nan", v |-> 0]          \* floating not-a-number
Masked == [k |-> "masked", v |-> 0]    \* element hidden by a validity mask
Cftime == [k |-> "cftime", v |-> 0]    \* a cftime datetime object
Dt64 == [k |-> "dt64", v |-> 7]        \* a numpy datetime64 (v: its tick count)
None == [k |-> "none", v |-> 0]        \* Python None
MaDefault == [k |-> "madefault", v |-> 0]  \* the masked array's own fill_value
Undef == [k |-> "undef", v |-> 0]      \* result of casting NaN to an integer type

IsTimeLike(e) == e.k \in {"cftime", "dt64"}

SeqToSet(s) == {s[i] : i \in DOMAIN s}

(***************************************************************************)
(* Time normalizer: _get_standardized_times.                               *)
(*                                                                         *)
(* A timestamp is [day, sod, frac]: whole days since 1970-01-01, second of *)
(* the day and tenths of a second. Epoch offsets near 2^31 do not fit the  *)
(* checker's integers, so an offset x is carried as <<x \div 2, x % 2>>.   *)
(***************************************************************************)
SecondsPerDay == 24 * 60 * 60
TwoTo30 == 1024 * 1024 * 1024

\* datetime's proleptic Gregorian calendar: day number -> <<year, month, day>>
CivilFromDays(day) ==
    LET z == day + 719468
        era == z \div 146097
        doe == z - era * 146097
        yoe == (doe - doe \div 1460 + doe \div 36524 - doe \div 146096) \div 365
        doy == doe - (365 * yoe + yoe \div 4 - yoe \div 100)
        mp == (5 * doy + 2) \div 153
        d == doy - (153 * mp + 2) \div 5 + 1
        m == IF mp < 10 THEN mp + 3 ELSE mp - 9
        y == yoe + era * 400 + (IF m <= 2 THEN 1 ELSE 0)
    IN  <<y, m, d>>

\* datetime(year, month, day, tzinfo=utc) as a day number
DaysFromCivil(ymd) ==
    LET m == ymd[2]
        d == ymd[3]
        y == IF m <= 2 THEN ymd[1] - 1 ELSE ymd[1]
        era == y \div 400
        yoe == y - era * 400
        doy == (153 * (IF m > 2 THEN m - 3 ELSE m + 9) + 2) \div 5 + d - 1
        doe == yoe * 365 + yoe \div 4 - yoe \div 100 + doy
    IN  era * 146097 + doe - 719468

\* int((t64 - epoch) / 1s): the quotient is a float, int() truncates toward zero
BaseTimeVal(t) ==
    LET half == t.day * (SecondsPerDay \div 2) + t.sod \div 2
        bit == t.sod % 2
        up == IF t.day < 0 /\ t.frac > 0 THEN 1 ELSE 0
    IN  IF bit + up = 2 THEN <<half + 1, 0>> ELSE <<half, bit + up>>

FitsInt32(x) == -TwoTo30 <= x[1] /\ x[1] < TwoTo30

\* the 32-bit two's complement pattern of x, as an integer
WrapInt32(x) ==
    LET h == IF x[1] >= TwoTo30 THEN (x[1] - TwoTo30) - TwoTo30
             ELSE IF x[1] < -TwoTo30 THEN (x[1] + TwoTo30) + TwoTo30
             ELSE x[1]
    IN  2 * h + x[2]

\* dt.strftime("%Y-%m-%d %H:%M:%S 0:00")
ScanTimeStr(t) ==
    LET ymd == CivilFromDays(t.day)
    IN  <<ymd[1], ymd[2], ymd[3], t.sod \div 3600, (t.sod % 3600) \div 60, t.sod % 60>>

\* dt.strftime('%Y-%m-%d 00:00:00 0:00')
MidnightStr(t) ==
    LET ymd == CivilFromDays(t.day)
    IN  <<ymd[1], ymd[2], ymd[3], 0, 0, 0>>

\* (t64 - midnight64) / 1s, in tenths of a second
TimeSinceMidnight(t) ==
    LET midnight == DaysFromCivil(CivilFromDays(t.day))
    IN  ((t.day - midnight) * SecondsPerDay + t.sod) * 10 + t.frac

\* The dictionary the function returns when np.int32(base_time_val) yields v.
TimesWith(t, v) ==
    [base_time |-> [value |-> v, string |-> ScanTimeStr(t),
                    units |-> <<"seconds since", 1970, 1, 1, 0, 0, 0>>],
     time_offset |-> [value |-> <<0>>,
                      units |-> <<"seconds since">> \o ScanTimeStr(t)],
     time |-> [value |-> <<TimeSinceMidnight(t)>>,
               units |-> <<"seconds since">> \o MidnightStr(t),
               string |-> ScanTimeStr(t)]]

\* np.int32(n) of a Python int outside the int32 range wraps on NumPy 1.x and
\* raises OverflowError on NumPy 2.x; which one is a property of the build
\* (strict = TRUE: it raises, ok = FALSE).
GetStandardizedTimes(t, strict) ==
    IF FitsInt32(BaseTimeVal(t)) \/ ~strict
    THEN [ok |-> TRUE, t |-> TimesWith(t, WrapInt32(BaseTimeVal(t)))]
    ELSE [ok |-> FALSE, t |-> TimesWith(t, 0)]

NoTimes == [ok |-> FALSE, t |-> TimesWith([day |-> 0, sod |-> 0, frac |-> 0], 0)]

(***************************************************************************)
(* Attribute resolver: _update_dod_globals.                                *)
(*                                                                         *)
(* A config value is [k, s]: its Python type and what str() gives for it.  *)
(* Global attributes are an ordered list of [key, val], val a string.      *)
(***************************************************************************)
CfgVal(kind, text) == [k |-> kind, s |-> text]
Str(v) == v.s

\* " ".join(sys.argv) if len(sys.argv) > 0 else "notebook"
Join(argv) == IF Len(argv) = 0 THEN "" ELSE argv[1]
CommandLine(e) == IF Len(e.argv) > 0 THEN Join(e.argv) ELSE "notebook"

\* f"created on {current_time} on {system_info}", system_info "unknown" when
\* uname fails
History(e) == "created on " \o e.now \o " on " \o (IF e.unameOk THEN e.host ELSE "unknown")

\* f extended or overwritten at key kk: the dict assignment f[kk] = val
Put(f, kk, val) == [x \in DOMAIN f \cup {kk} |-> IF x = kk THEN val ELSE f[x]]

\* lines 103 and 111: the two assignments into the mapping passed in
DeriveConfig(cfgAttrs, e) ==
    Put(Put(cfgAttrs, "command_line", CfgVal("str", CommandLine(e))),
        "history", CfgVal("str", History(e)))

\* Mutant: the scan stops at the first unresolved name.
RECURSIVE ScanGlobalsFirstOnly(_, _, _, _)
ScanGlobalsFirstOnly(globals, cfgAttrs, i, miss) ==
    IF i > Len(globals) \/ miss # <<>> THEN [globals |-> globals, missing |-> miss]
    ELSE IF globals[i].val = ""
         THEN IF globals[i].key \in DOMAIN cfgAttrs
              THEN ScanGlobalsFirstOnly(
                       [globals EXCEPT ![i].val = Str(cfgAttrs[globals[i].key])],
                       cfgAttrs, i + 1, miss)
              ELSE ScanGlobalsFirstOnly(globals, cfgAttrs, i + 1,
                                        Append(miss, globals[i].key))
         ELSE ScanGlobalsFirstOnly(globals, cfgAttrs, i + 1, miss)

\* lines 114-119, entries i.. of the globals: [globals, missing]
RECURSIVE ScanGlobals(_, _, _, _)
ScanGlobals(globals, cfgAttrs, i, miss) ==
    IF i > Len(globals) THEN [globals |-> globals, missing |-> miss]
    ELSE IF globals[i].val = ""
         THEN IF globals[i].key \in DOMAIN cfgAttrs
              THEN ScanGlobals([globals EXCEPT ![i].val = Str(cfgAttrs[globals[i].key])],
                               cfgAttrs, i + 1, miss)
              ELSE ScanGlobals(globals, cfgAttrs, i + 1, Append(miss, globals[i].key))
         ELSE ScanGlobals(globals, cfgAttrs, i + 1, miss)

(***************************************************************************)
(* _update_dod_time_attributes: for the time variables the schema          *)
(* declares, every attribute that is empty and named like an output of the *)
(* normalizer takes that output.                                           *)
(***************************************************************************)
TimeNames == <<"base_time", "time_offset", "time">>
TimeVars == {"time", "time_offset", "base_time"}
Empty == <<>>       \* the empty-string sentinel of a per-variable attribute

MetaKeys(tname) == IF tname = "time_offset" THEN {"value", "units"}
                   ELSE {"value", "string", "units"}

MetaOf(tm, tname, akey) ==
    LET meta == IF tname = "base_time" THEN tm.base_time
                ELSE IF tname = "time_offset" THEN tm.time_offset ELSE tm.time
    IN  IF akey = "units" THEN meta.units
        ELSE IF akey = "string" THEN meta.string
        ELSE IF tname = "base_time" THEN <<meta.value>> ELSE meta.value

\* Mutant: the normalizer's outputs replace the attributes whether or not the
\* schema left them empty.
InjectAttrsOverwrites(v, tm) ==
    IF v.name \in TimeVars
    THEN [v EXCEPT !.attrs = [a \in DOMAIN v.attrs |->
              IF a \in MetaKeys(v.name) THEN MetaOf(tm, v.name, a) ELSE v.attrs[a]]]
    ELSE v

InjectAttrs(v, tm) ==
    IF v.name \in TimeVars
    THEN [v EXCEPT !.attrs = [a \in DOMAIN v.attrs |->
              IF v.attrs[a] = Empty /\ a \in MetaKeys(v.name)
              THEN MetaOf(tm, v.name, a) ELSE v.attrs[a]]]
    ELSE v

UpdateTimeAttrs(variables, tm) ==
    [i \in DOMAIN variables |-> InjectAttrs(variables[i], tm)]

(***************************************************************************)
(* Structural pass: _create_nc_structure.                                  *)
(*                                                                         *)
(* A schema variable is [name, dtype, fill, attrs]; fill is the value of   *)
(* its _FillValue attribute, None when it declares none. A created         *)
(* variable is [dtype, fill, attrs, data, by]: by names what wrote data    *)
(* last ("": nothing yet, "@times", "@radar", or the Dataset name of a     *)
(* mapping entry).                                                         *)
(***************************************************************************)
Names(variables) == {variables[i].name : i \in DOMAIN variables}
VarNamed(variables, n) ==
    variables[CHOOSE i \in DOMAIN variables :
                 /\ variables[i].name = n
                 /\ \A j \in DOMAIN variables : variables[j].name = n => j <= i]

\* Python truthiness of the popped _FillValue: None and zero are falsy
Truthy(fill) == fill.k = "num" /\ fill.v # 0

\* lines 144-145: the fill value the variable is created with
BoundFill(fill) == IF Truthy(fill) THEN fill ELSE None

CreateVar(v) ==
    [dtype |-> v.dtype, fill |-> BoundFill(v.fill), attrs |-> v.attrs,
     data |-> <<>>, by |-> ""]

CreateVariables(variables) ==
    [n \in Names(variables) |-> CreateVar(VarNamed(variables, n))]

\* line 308: list(nc.variables.keys()), in creation order
RECURSIVE VariableList(_, _)
VariableList(variables, i) ==
    IF i > Len(variables) THEN <<>>
    ELSE LET rest == VariableList(variables, i + 1)
         IN  IF variables[i].name \in SeqToSet([j \in 1..(i - 1) |-> variables[j].name])
             THEN rest ELSE <<variables[i].name>> \o rest

(***************************************************************************)
(* Value pass: _write_dataset_to_file, the body of the mapping loop.       *)
(***************************************************************************)
\* dtype_map (lines 220-226): the DOD dtypes that have a numpy target type
DtypeMap == {"float", "double", "short", "int", "byte"}
IsIntDtype(dtype) == dtype \in {"short", "int", "byte"}
Bits(dtype) == IF dtype = "byte" THEN 8 ELSE IF dtype = "short" THEN 16 ELSE 32

\* two's complement wrap of n to w bits (w <= 16 here; see CastElem)
WrapBits(n, w) ==
    LET m == 2 ^ w
        r == n % m
    IN  IF r >= m \div 2 THEN r - m ELSE r

\* one element under data.astype(target): integers wrap to the target width,
\* NaN has no integer value, a datetime64 gives its tick count
CastElem(e, dtype) ==
    IF e.k = "dt64" THEN Num(e.v)
    ELSE IF e.k = "num" /\ dtype \in {"byte", "short"} THEN Num(WrapBits(e.v, Bits(dtype)))
    ELSE IF e.k \in {"nan", "madefault"} /\ IsIntDtype(dtype) THEN Undef
    ELSE e

\* an array holding Python objects has dtype object
IsObjectArray(a) == \E i \in DOMAIN a : a[i].k = "cftime"

\* lines 245-246: np.ma.filled(data, fill_value=dod_fill); with fill_value None
\* numpy uses the masked array's own fill_value
MaFilled(a, fill) ==
    LET F(e) == IF e.k = "masked" THEN (IF fill = None THEN MaDefault ELSE fill) ELSE e
    IN  [i \in DOMAIN a |-> F(a[i])]

\* lines 249-250: np.where(np.isnan(data), dod_fill, data) when a fill is bound
NanFilled(a, fill) ==
    LET F(e) == IF e.k = "nan" THEN fill ELSE e
    IN  IF fill # None THEN [i \in DOMAIN a |-> F(a[i])] ELSE a

\* line 249: np.isnan is evaluated when a fill is bound, and is not defined on
\* object arrays (TypeError)
IsnanRaises(a, fill) == fill # None /\ IsObjectArray(a)

\* line 253: len(data) > 0 and "cftime" in str(type(data.flat[0]))
CftimeCheck(a) == Len(a) > 0 /\ a[1].k = "cftime"

\* lines 260-264: the conversion happens for the dtypes of dtype_map only;
\* float(obj) of a cftime object raises TypeError
CastRaises(a, dtype) == dtype \in DtypeMap /\ IsObjectArray(a)
Cast(a, dtype) ==
    LET F(e) == CastElem(e, dtype)
    IN  IF dtype \in DtypeMap THEN [i \in DOMAIN a |-> F(a[i])] ELSE a

\* lines 238-264 for one array: what reaches line 267, or the TypeError
Prepare(a, var) ==
    LET filled == MaFilled(a, var.fill)
        nonan == NanFilled(filled, var.fill)
    IN  IF IsnanRaises(filled, var.fill) THEN [raise |-> TRUE, data |-> <<>>]
        ELSE IF CftimeCheck(nonan) THEN [raise |-> TRUE, data |-> <<>>]
        ELSE IF CastRaises(nonan, var.dtype) THEN [raise |-> TRUE, data |-> <<>>]
        ELSE [raise |-> FALSE, data |-> Cast(nonan, var.dtype)]

\* Mutant: the guard that keeps the three time variables out of the mapped
\* pass is missing.
SkippedNoTimeGuard(entry, d, created) ==
    \/ entry[1] \notin DOMAIN d.vars
    \/ entry[2] \notin DOMAIN created

\* Mutant: a variable that an earlier entry has written is not written again.
SkippedIfWritten(entry, d, created) ==
    \/ entry[1] \notin DOMAIN d.vars
    \/ entry[2] \notin DOMAIN created
    \/ entry[2] \in TimeVars
    \/ created[entry[2]].by # ""

\* lines 231-236: the entry is skipped
Skipped(entry, d, created) ==
    \/ entry[1] \notin DOMAIN d.vars
    \/ entry[2] \notin DOMAIN created
    \/ entry[2] \in TimeVars

\* lines 275-291: the Dataset attribute each radar variable is written from
OriginAttr(name) == IF name = "radar_lat" THEN "origin_latitude"
                    ELSE IF name = "radar_lon" THEN "origin_longitude"
                    ELSE "origin_altitude"
RadarVars == {"radar_lat", "radar_lon", "radar_alt"}

\* Mutant: the Dataset attribute is ignored.
RadarValueZero(d, name) == Num(0)

RadarValue(d, name) ==
    IF OriginAttr(name) \in DOMAIN d.attrs THEN d.attrs[OriginAttr(name)] ELSE Num(0)

\* lines 270-272: the value written for one time variable
TimeValue(tm, tname) ==
    IF tname = "base_time" THEN <<Num(tm.base_time.value)>>
    ELSE IF tname = "time_offset" THEN [i \in DOMAIN tm.time_offset.value |-> Num(tm.time_offset.value[i])]
    ELSE [i \in DOMAIN tm.time.value |-> Num(tm.time.value[i])]

(***************************************************************************)
(* write_ds_to_nc, one action per stage.                                   *)
(***************************************************************************)
NoDod == [globals |-> <<>>, variables |-> <<>>]
NoNc == [handle |-> "none", globals |-> <<>>, fields |-> <<>>, vars |-> <<>>]

Raise(kind, stage) ==
    /\ pc' = "failed"
    /\ err' = kind
    /\ failedAt' = stage

\* line 300: dod = _parse_dod(dod_template_path)
ParseDod ==
    /\ pc = "start"
    /\ IF schema.ok
       THEN /\ dod' = [globals |-> schema.globals, variables |-> schema.variables]
            /\ pc' = "parsed"
            /\ UNCHANGED <<err, failedAt>>
       ELSE /\ Raise("ValueError", "parse")
            /\ UNCHANGED dod
    /\ UNCHANGED <<env, schema, config, config0, ds, missing, nc, file, idx, times>>
    /\ UNCHANGED <<parser, retry, conc, batch>>

\* line 302: dod = _update_dod_globals(dod, config)
UpdateDodGlobals ==
    /\ pc = "parsed"
    /\ LET derived == DeriveConfig(config.attrs, env)
           r == ScanGlobals(dod.globals, derived, 1, <<>>)
       IN  /\ config' = [config EXCEPT !.attrs = derived]
           /\ dod' = [dod EXCEPT !.globals = r.globals]
           /\ missing' = r.missing
           /\ IF r.missing # <<>>
              THEN Raise("ValueError", "resolve")
              ELSE pc' = "resolved" /\ UNCHANGED <<err, failedAt>>
    /\ UNCHANGED <<env, schema, config0, ds, nc, file, idx, times>>
    /\ UNCHANGED <<parser, retry, conc, batch>>

\* line 303: dod = _update_dod_time_attributes(dod, ds)
UpdateDodTimeAttributes ==
    /\ pc = "resolved"
    /\ LET r == GetStandardizedTimes(ds.time, env.strict)
       IN  IF r.ok
           THEN /\ times' = r
                /\ dod' = [dod EXCEPT !.variables = UpdateTimeAttrs(dod.variables, r.t)]
                /\ pc' = "timed"
                /\ UNCHANGED <<err, failedAt>>
           ELSE /\ Raise("OverflowError", "time")
                /\ UNCHANGED <<times, dod>>
    /\ UNCHANGED <<env, schema, config, config0, ds, missing, nc, file, idx>>
    /\ UNCHANGED <<parser, retry, conc, batch>>

\* Mutant: the output container is created first, before the schema is
\* parsed and resolved.
CreateReadyEarly == pc \in {"start", "timed"}

\* lines 300-305: the structural pass is called after the parser, the
\* resolver and the time attributes have returned
CreateReady == pc = "timed"

\* line 305: nc = _create_nc_structure(output_path, dod). Dataset(path, "w")
\* creates or truncates the file; it, or a later create call, may raise.
CreateNcStructure ==
    /\ CreateReady
    /\ \/ /\ ~retry.leaked
          /\ nc' = [handle |-> "open", globals |-> dod.globals, fields |-> <<>>,
                    vars |-> CreateVariables(dod.variables)]
          /\ file' = "partial"
          /\ pc' = "created"
          /\ UNCHANGED <<err, failedAt>>
       \/ /\ Raise("IOError", "open")
          /\ UNCHANGED <<nc, file>>
       \/ /\ ~retry.leaked
          /\ nc' = [NoNc EXCEPT !.handle = "open"]
          /\ file' = "partial"
          /\ Raise("IOError", "structure")
       \* the path is still open in this process through the Dataset object of
       \* an earlier write: the library refuses to truncate it
       \/ /\ retry.leaked
          /\ Raise("PermissionError", "open")
          /\ UNCHANGED <<nc, file>>
    /\ UNCHANGED <<env, schema, config, config0, ds, dod, missing, idx, times>>
    /\ UNCHANGED <<parser, retry, conc, batch>>

\* lines 308-309: nc.fields = ', '.join(list(nc.variables.keys()))
SetFields ==
    /\ pc = "created"
    /\ nc' = [nc EXCEPT !.fields = VariableList(dod.variables, 1)]
    /\ pc' = "enter"
    /\ UNCHANGED <<env, schema, config, config0, ds, dod, missing, err, failedAt,
                   file, idx, times>>
    /\ UNCHANGED <<parser, retry, conc, batch>>

\* lines 214-228: times = _get_standardized_times(ds), then the lookup of
\* config["variable_mapping"] that opens the loop (KeyError without the key)
BeginValuePass ==
    /\ pc = "enter"
    /\ times' = GetStandardizedTimes(ds.time, env.strict)
    /\ IF config.hasMapping
       THEN pc' = "mapped" /\ idx' = 1 /\ UNCHANGED <<err, failedAt>>
       ELSE Raise("KeyError", "value") /\ UNCHANGED idx
    /\ UNCHANGED <<env, schema, config, config0, ds, dod, missing, nc, file>>
    /\ UNCHANGED <<parser, retry, conc, batch>>

\* lines 228-267: one entry of the mapping table
WriteMapped ==
    /\ pc = "mapped"
    /\ idx <= Len(config.mapping)
    /\ LET entry == config.mapping[idx]
       IN  IF Skipped(entry, ds, nc.vars)
           THEN /\ idx' = idx + 1
                /\ UNCHANGED <<pc, err, failedAt, nc>>
           ELSE LET p == Prepare(ds.vars[entry[1]], nc.vars[entry[2]])
                IN  IF p.raise
                    THEN /\ Raise("TypeError", "value")
                         /\ UNCHANGED <<idx, nc>>
                    ELSE \/ /\ nc' = [nc EXCEPT !.vars[entry[2]].data = p.data,
                                                !.vars[entry[2]].by = entry[1]]
                            /\ idx' = idx + 1
                            /\ UNCHANGED <<pc, err, failedAt>>
                         \* line 267 with an object array: the library decides
                         \/ /\ IsObjectArray(p.data)
                            /\ Raise("TypeError", "value")
                            /\ UNCHANGED <<idx, nc>>
    /\ UNCHANGED <<env, schema, config, config0, ds, dod, missing, file, times>>
    /\ UNCHANGED <<parser, retry, conc, batch>>

\* lines 270-272: the normalizer's values, after the mapping loop
WriteTimes ==
    /\ pc = "mapped"
    /\ idx > Len(config.mapping)
    /\ nc' = [nc EXCEPT !.vars = [n \in DOMAIN nc.vars |->
                 IF n \in TimeVars
                 THEN [nc.vars[n] EXCEPT !.data = TimeValue(times.t, n), !.by = "@times"]
                 ELSE nc.vars[n]]]
    /\ pc' = "radar"
    /\ UNCHANGED <<env, schema, config, config0, ds, dod, missing, err, failedAt,
                   file, idx, times>>
    /\ UNCHANGED <<parser, retry, conc, batch>>

\* lines 275-291: radar_lat, radar_lon, radar_alt from the Dataset attributes
WriteRadarMeta ==
    /\ pc = "radar"
    /\ nc' = [nc EXCEPT !.vars = [n \in DOMAIN nc.vars |->
                 IF n \in RadarVars
                 THEN [nc.vars[n] EXCEPT !.data = <<RadarValue(ds, n)>>, !.by = "@radar"]
                 ELSE nc.vars[n]]]
    /\ pc' = "close"
    /\ UNCHANGED <<env, schema, config, config0, ds, dod, missing, err, failedAt,
                   file, idx, times>>
    /\ UNCHANGED <<parser, retry, conc, batch>>

\* line 293: nc.close()
Close ==
    /\ pc = "close"
    /\ nc' = [nc EXCEPT !.handle = "closed"]
    /\ file' = "complete"
    /\ pc' = "done"
    /\ UNCHANGED <<env, schema, config, config0, ds, dod, missing, err, failedAt,
                   idx, times>>
    /\ UNCHANGED <<parser, retry, conc, batch>>

\* any library write of lines 267-291 may raise an I/O error
WriteFails ==
    /\ pc \in {"mapped", "radar"}
    /\ Raise("IOError", "value")
    /\ UNCHANGED <<env, schema, config, config0, ds, dod, missing, nc, file, idx, times>>
    /\ UNCHANGED <<parser, retry, conc, batch>>

Next ==
    \/ ParseDod
    \/ UpdateDodGlobals
    \/ UpdateDodTimeAttributes
    \/ CreateNcStructure
    \/ SetFields
    \/ BeginValuePass
    \/ WriteMapped
    \/ WriteTimes
    \/ WriteRadarMeta
    \/ Close
    \/ WriteFails

(***************************************************************************)
(* Inputs.                                                                 *)
(***************************************************************************)
MaxGlobals == 2     \* global attributes a schema declares
MaxLen == 2         \* elements of a Dataset array
MaxMap == 2         \* entries of the mapping table

SeqsUpTo(S, n) == UNION {[1..m -> S] : m \in 0..n}

GlobalKeys == {"doi", "site_id", "command_line"}
GlobalLists ==
    {g \in SeqsUpTo([key : GlobalKeys, val : {"", "ARM"}], MaxGlobals) :
        \A i, j \in DOMAIN g : g[i].key = g[j].key => i = j}

CfgKeys == {"doi", "command_line"}
CfgValues == {CfgVal("str", ""), CfgVal("str", "guc"), CfgVal("int", "-9999")}
CfgAttrs == UNION {[K -> CfgValues] : K \in SUBSET CfgKeys}

T2024 == [day |-> 19737, sod |-> 12000, frac |-> 0]     \* 2024-01-15T03:20:00Z
T2038 == [day |-> 24855, sod |-> 11648, frac |-> 0]     \* 2038-01-19T03:14:08Z

Envs ==
    {e \in [argv : {<<>>, <<"">>, <<"run_hp.py">>}, unameOk : BOOLEAN,
            host : {"node1"}, now : {"2024-01-15 03:21:00 UTC"}, strict : BOOLEAN] :
        (~e.unameOk \/ e.strict) => e.argv = <<"run_hp.py">>}
DefaultEnv == [argv |-> <<"run_hp.py">>, unameOk |-> TRUE, host |-> "node1",
               now |-> "2024-01-15 03:21:00 UTC", strict |-> FALSE]

NoAttrs == [a \in {} |-> Empty]
UnitsAttr(val) == [a \in {"units"} |-> val]
TimeVar(units) == [name |-> "time", dtype |-> "double", fill |-> None,
                   attrs |-> UnitsAttr(units)]
RadarLat == [name |-> "radar_lat", dtype |-> "float", fill |-> Num(-99), attrs |-> NoAttrs]
HpFhc(dtype, fill) == [name |-> "hp_fhc", dtype |-> dtype, fill |-> fill, attrs |-> NoAttrs]

Opt(x) == {<<>>, <<x>>}
HpFhcVariants ==
    {HpFhc(t, f) : t \in {"float", "byte", "int64"}, f \in {None, Num(-99)}}
        \cup {HpFhc("float", Num(0))}
VariableLists ==
    {a \o b : a \in {<<>>} \cup {<<v>> : v \in HpFhcVariants},
              b \in {<<>>, <<TimeVar(Empty), RadarLat>>}}

XrNames == {"hp_fhc_summer", "hp_fhc_winter"}
DodNames == {"hp_fhc", "time", "radar_lat"}
Mappings ==
    {m \in SeqsUpTo(XrNames \X DodNames, MaxMap) :
        \A i, j \in DOMAIN m : m[i][1] = m[j][1] => i = j}
DefaultMapping == <<<<"hp_fhc_summer", "hp_fhc">>, <<"hp_fhc_winter", "hp_fhc">>>>

Elems == {Num(130), NaN, Masked, Cftime}
Arrays == SeqsUpTo(Elems, MaxLen) \cup {[i \in 1..n |-> Dt64] : n \in 1..MaxLen}
Absent == <<[k |-> "absent", v |-> 0]>>
VarsOf(a, b) ==
    [n \in {x \in XrNames : IF x = "hp_fhc_summer" THEN a # Absent ELSE b # Absent} |->
        IF n = "hp_fhc_summer" THEN a ELSE b]
DatasetVars == {VarsOf(a, b) : a \in Arrays \cup {Absent}, b \in {Absent, <<Num(7)>>}}
OriginAttrs == {[a \in {} |-> Num(0)], [a \in {"origin_latitude"} |-> Num(38)]}

\* the state of the parts of the program a specification does not run
NoParser == [lines |-> <<>>, pos |-> 0, dims |-> <<>>, variables |-> <<>>,
             globals |-> <<>>, current_var |-> "", in_globals |-> FALSE,
             status |-> "idle"]
NoRetry == [attempt |-> 1, leaked |-> FALSE]
NoConc == [config |-> <<>>, w |-> <<>>]
NoBatch == [status |-> "idle", runner |-> "seq", rerun |-> FALSE, inputs |-> <<>>,
            exists |-> {}, files |-> <<>>, i |-> 0, pending |-> {}, attempted |-> {},
            successes |-> 0, failures |-> 0, good |-> 0, bad |-> 0, done |-> 0,
            results |-> <<>>, run |-> 1, log |-> {}]
Idle ==
    /\ parser = NoParser
    /\ retry = NoRetry
    /\ conc = NoConc
    /\ batch = NoBatch

\* runs that differ in the schema's globals, the RunConfig and the environment
InitResolve ==
    /\ env \in Envs
    /\ schema \in [ok : BOOLEAN, globals : GlobalLists,
                   variables : {<<HpFhc("float", Num(-99)), TimeVar(<<"s">>)>>}]
    /\ schema.ok \/ schema.globals = <<>>
    /\ config \in [attrs : CfgAttrs, hasMapping : BOOLEAN, mapping : {DefaultMapping}]
    /\ config.hasMapping \/ config.attrs = <<>>
    /\ ds \in [vars : {VarsOf(<<Num(130), Masked>>, Absent)},
               attrs : {[a \in {} |-> Num(0)]}, time : {T2024, T2038}]
    /\ (ds.time = T2038 \/ env.strict) => env.argv = <<"run_hp.py">> /\ env.unameOk
    /\ file \in {"absent", "prior"}

\* runs that differ in the schema's variables, the mapping table and the Dataset
InitValues ==
    /\ env = DefaultEnv
    /\ schema \in [ok : {TRUE}, globals : {<<[key |-> "doi", val |-> ""]>>},
                   variables : VariableLists]
    /\ config \in [attrs : {[a \in {"doi"} |-> CfgVal("str", "10.5439/2530631")]},
                   hasMapping : {TRUE}, mapping : Mappings]
    /\ ds \in [vars : DatasetVars, attrs : OriginAttrs, time : {T2024}]
    /\ file = "absent"

Init ==
    /\ InitResolve \/ InitValues
    /\ config0 = config
    /\ pc = "start"
    /\ dod = NoDod
    /\ missing = <<>>
    /\ err = "none"
    /\ failedAt = "none"
    /\ nc = NoNc
    /\ idx = 0
    /\ times = NoTimes
    /\ Idle

Spec == Init /\ [][Next]_vars

(***************************************************************************)
(* The time normalizer alone, over timestamps around the epoch, the 32-bit *)
(* limits and a present-day scan.                                          *)
(***************************************************************************)
TimeDays == {-24856, -24855, -1, 0, 19737, 24855, 24856}
TimeSeconds == {0, 11647, 11648, 12000, 74751, 74752, 86399}
Timestamps == [day : TimeDays, sod : TimeSeconds, frac : {0, 5}]

InitTime ==
    /\ env \in {DefaultEnv, [DefaultEnv EXCEPT !.strict = TRUE]}
    /\ schema = [ok |-> TRUE, globals |-> <<>>, variables |-> <<>>]
    /\ config = [attrs |-> <<>>, hasMapping |-> TRUE, mapping |-> <<>>]
    /\ config0 = config
    /\ ds \in [vars : {<<>>}, attrs : {<<>>}, time : Timestamps]
    /\ pc = "time"
    /\ dod = NoDod
    /\ missing = <<>>
    /\ err = "none"
    /\ failedAt = "none"
    /\ nc = NoNc
    /\ file = "absent"
    /\ idx = 0
    /\ times = NoTimes
    /\ Idle

\* one call of _get_standardized_times(ds)
StandardizeTime ==
    /\ pc = "time"
    /\ times' = GetStandardizedTimes(ds.time, env.strict)
    /\ pc' = "timeDone"
    /\ err' = IF times'.ok THEN "none" ELSE "OverflowError"
    /\ UNCHANGED <<env, schema, config, config0, ds, dod, missing, failedAt, nc,
                   file, idx>>
    /\ UNCHANGED <<parser, retry, conc, batch>>

NextTime == StandardizeTime

SpecTime == InitTime /\ [][NextTime]_vars

(***************************************************************************)
(* Properties of attribute resolution and of the order of the stages.      *)
(***************************************************************************)
\* the global attributes the schema leaves empty
EmptyGlobals == {schema.globals[i].key : i \in {j \in DOMAIN schema.globals :
                                                   schema.globals[j].val = ""}}
\* those of them that neither the caller's RunConfig nor a derived key supplies
Unresolvable == EmptyGlobals \ (DOMAIN config0.attrs \cup {"command_line", "history"})
AfterResolver == pc \notin {"start", "parsed", "time", "timeDone"}

\* C1: the derived keys command_line and history go to a working copy; the
\* caller's RunConfig mapping keeps exactly the keys and values it had before
\* the write.
C1_CallerConfigUnchanged == config = config0

\* C2: no terminal state of a write (returned or raised) has the output file
\* handle still open.
C2_HandleReleasedAtEnd == pc \in {"done", "failed"} => nc.handle # "open"

\* C3: in every run where parsing fails or a global attribute is unresolved,
\* no file handle is ever acquired and the output file is neither created nor
\* truncated; a handle exists only after parsing and resolution succeeded.
C3_NoFileBeforeResolution ==
    /\ (~schema.ok \/ Unresolvable # {}) =>
          nc.handle = "none" /\ file \in {"absent", "prior"}
    /\ nc.handle # "none" => schema.ok /\ missing = <<>> /\ AfterResolver

C3_Witness ==
    /\ pc = "failed"
    /\ failedAt = "resolve"
    /\ file = "prior"
    /\ nc.handle = "none"

\* C4: when the schema has an empty global attribute absent from the RunConfig
\* (derived keys included), resolution fails and the failure lists exactly the
\* empty-and-absent names, each once: all of them, no other.
C4_MissingExactlyUnresolved ==
    (AfterResolver /\ schema.ok) =>
        /\ Unresolvable # {} =>
              /\ pc = "failed" /\ failedAt = "resolve" /\ err = "ValueError"
              /\ SeqToSet(missing) = Unresolvable
              /\ Len(missing) = Cardinality(Unresolvable)
        /\ Unresolvable = {} => missing = <<>> /\ failedAt # "resolve"

C4_Witness ==
    /\ pc = "failed"
    /\ failedAt = "resolve"
    /\ Len(missing) = 2
    /\ SeqToSet(missing) = Unresolvable

\* what resolution must store for an empty slot named key
ResolvedValue(key) ==
    IF key = "command_line"
    THEN (IF Len(env.argv) > 0 THEN Join(env.argv) ELSE "notebook")
    ELSE IF key = "history" THEN History(env)
    ELSE config0.attrs[key].s

\* C5: when every empty global attribute name is a RunConfig key, whatever the
\* value under it (an empty string included), resolution succeeds and no
\* global attribute of the result is the empty string.
C5_NoEmptyGlobalLeft ==
    (AfterResolver /\ schema.ok /\ EmptyGlobals \subseteq DOMAIN config0.attrs) =>
        /\ failedAt # "resolve"
        /\ \A i \in DOMAIN dod.globals : dod.globals[i].val # ""

\* What resolution does guarantee under that precondition: it succeeds, every
\* slot the schema left empty holds the stringified value resolved for its
\* key, every other slot keeps the schema's value, and a global attribute is
\* empty afterwards only if the value under its key stringifies to "".
C5_ResolvedFromConfig ==
    (AfterResolver /\ schema.ok /\ EmptyGlobals \subseteq DOMAIN config0.attrs) =>
        /\ failedAt # "resolve"
        /\ Len(dod.globals) = Len(schema.globals)
        /\ \A i \in DOMAIN dod.globals :
              /\ dod.globals[i].key = schema.globals[i].key
              /\ dod.globals[i].val =
                    IF schema.globals[i].val = ""
                    THEN ResolvedValue(schema.globals[i].key)
                    ELSE schema.globals[i].val
              /\ dod.globals[i].val = "" =>
                    /\ schema.globals[i].val = ""
                    /\ ResolvedValue(schema.globals[i].key) = ""

(***************************************************************************)
(* Properties of the value pass.                                           *)
(***************************************************************************)
HasTimeLike(a) == \E i \in DOMAIN a : IsTimeLike(a[i])

\* the mapping entries the loop writes: not skipped by lines 231-236
Written(i) ==
    /\ config.mapping[i][1] \in DOMAIN ds.vars
    /\ config.mapping[i][2] \in DOMAIN nc.vars
    /\ config.mapping[i][2] \notin {"time", "time_offset", "base_time"}

\* C6: the output variables base_time, time_offset and time, when declared,
\* never hold Dataset values: nothing but the final time write touches them,
\* and after a successful write they hold exactly the normalizer's outputs.
C6_TimeVarsFromNormalizer ==
    \A n \in DOMAIN nc.vars \cap {"time", "time_offset", "base_time"} :
        /\ nc.vars[n].by \in {"", "@times"}
        /\ nc.vars[n].by = "" => nc.vars[n].data = <<>>
        /\ nc.vars[n].by = "@times" =>
              nc.vars[n].data = TimeValue(GetStandardizedTimes(ds.time, env.strict).t, n)
        /\ pc = "done" => nc.vars[n].by = "@times"

C6_Witness ==
    /\ pc = "done"
    /\ "time" \in DOMAIN nc.vars
    /\ nc.vars["time"].data = <<Num(120000)>>
    /\ \E i \in DOMAIN config.mapping :
          /\ config.mapping[i][2] = "time"
          /\ config.mapping[i][1] \in DOMAIN ds.vars

\* C7: a mapped array with a time-like element at any position never goes
\* through the generic path: the write fails with a TypeError and the array
\* is not written into its output variable.
C7_TimeLikeNeverWritten ==
    /\ \A n \in DOMAIN nc.vars :
          nc.vars[n].by \in DOMAIN ds.vars => ~HasTimeLike(ds.vars[nc.vars[n].by])
    /\ \A i \in DOMAIN config.mapping :
          (pc \in {"mapped", "radar", "close", "done"} /\ i < idx /\ Written(i))
              => ~HasTimeLike(ds.vars[config.mapping[i][1]])

\* what the file must hold for one source element under fill F and dtype
ExpectedElem(e, F, dtype) ==
    IF e.k \in {"masked", "nan"} THEN F
    ELSE IF e.k = "dt64" THEN Num(e.v)
    ELSE IF dtype = "byte" THEN Num(((e.v + 128) % 256) - 128)
    ELSE e
ExpectedData(a, F, dtype) == [j \in DOMAIN a |-> ExpectedElem(a[j], F, dtype)]
\* the dtype enumeration of the schema data model
SchemaDtypes == {"byte", "short", "int", "float", "double"}

\* C10: after the value pass, every mapped variable whose schema variable has
\* a bound fill value F holds its source array with masked and NaN elements
\* stored as F and the others coerced to the declared dtype; and, as in the
\* scenario with an empty RunConfig, a RunConfig without a mapping table does
\* not make the value pass fail.
C10_MappedValuesStored ==
    /\ pc = "done" =>
          \A i \in DOMAIN config.mapping :
              LET xr == config.mapping[i][1]
                  dn == config.mapping[i][2]
              IN  (/\ xr \in DOMAIN ds.vars /\ dn \in DOMAIN nc.vars
                   /\ nc.vars[dn].fill # None /\ nc.vars[dn].dtype \in SchemaDtypes)
                      => nc.vars[dn].data =
                             ExpectedData(ds.vars[xr], nc.vars[dn].fill, nc.vars[dn].dtype)
    /\ ~config0.hasMapping => ~(pc = "failed" /\ err = "KeyError")

\* a later step of the same value pass writes the entry's variable again
WrittenAgain(i) ==
    \/ config.mapping[i][2] \in {"radar_lat", "radar_lon", "radar_alt"}
    \/ \E j \in DOMAIN config.mapping :
          j > i /\ Written(j) /\ config.mapping[j][2] = config.mapping[i][2]

\* What the value pass does guarantee: the statement holds for every mapping
\* entry that the loop writes (not one of the three time variables) and whose
\* variable no later step of the pass writes again (a later entry with the
\* same schema name, or the radar_lat/radar_lon/radar_alt step).
C10_LastMappedValuesStored ==
    pc = "done" =>
        \A i \in DOMAIN config.mapping :
            LET xr == config.mapping[i][1]
                dn == config.mapping[i][2]
            IN  (/\ Written(i) /\ ~WrittenAgain(i)
                 /\ nc.vars[dn].fill # None /\ nc.vars[dn].dtype \in SchemaDtypes)
                    => /\ nc.vars[dn].by = xr
                       /\ nc.vars[dn].data =
                             ExpectedData(ds.vars[xr], nc.vars[dn].fill, nc.vars[dn].dtype)

\* C20: the value pass takes the entries in table order, and when two
\* entries that it writes target the same schema variable (hp_fhc_summer and
\* hp_fhc_winter both map to hp_fhc), after a successful write the variable
\* holds what the pass wrote for the later entry, not for the earlier one.
C20_LastEntryWins ==
    /\ [](pc = "done" =>
             \A i, j \in DOMAIN config.mapping :
                 LET dn == config.mapping[j][2]
                     xr == config.mapping[j][1]
                 IN  (/\ i < j /\ Written(i) /\ Written(j)
                      /\ config.mapping[i][2] = dn
                      /\ dn \notin {"radar_lat", "radar_lon", "radar_alt"}
                      /\ \A k \in DOMAIN config.mapping :
                            (k > j /\ Written(k)) => config.mapping[k][2] # dn)
                         => /\ nc.vars[dn].by = xr
                            /\ nc.vars[dn].data = Prepare(ds.vars[xr], nc.vars[dn]).data)
    /\ [][(pc = "mapped" /\ pc' = "mapped") => idx' = idx + 1]_vars

C20_Witness ==
    /\ pc = "done"
    /\ config.mapping = <<<<"hp_fhc_summer", "hp_fhc">>, <<"hp_fhc_winter", "hp_fhc">>>>
    /\ {"hp_fhc_summer", "hp_fhc_winter"} \subseteq DOMAIN ds.vars
    /\ ds.vars["hp_fhc_summer"] = <<Num(130)>>
    /\ "hp_fhc" \in DOMAIN nc.vars
    /\ nc.vars["hp_fhc"].by = "hp_fhc_winter"
    /\ nc.vars["hp_fhc"].data # Prepare(ds.vars["hp_fhc_summer"], nc.vars["hp_fhc"]).data

(***************************************************************************)
(* Properties of the time normalizer (checked under SpecTime).             *)
(***************************************************************************)
\* C8: base_time.value is the whole number of seconds between the epoch and
\* t, for every t, those beyond the signed 32-bit range included. The offset
\* day * 86400 + sod is compared through its halves and its parity.
C8_BaseTimeIsEpochSeconds ==
    (pc = "timeDone" /\ ds.time.frac = 0) =>
        /\ times.ok
        /\ times.t.base_time.value \div 2 = ds.time.day * 43200 + ds.time.sod \div 2
        /\ times.t.base_time.value % 2 = ds.time.sod % 2

\* C9: time.value is the one-element array of the seconds since the start of
\* t's UTC day, in [0, 86400); base_time - time is a multiple of 86400 for a
\* whole-second t; time.units names that day's midnight; time_offset.value is
\* [0.0]; 2024-01-15T03:20:00Z gives [12000.0].
C9_TimeOfDay ==
    pc = "timeDone" =>
        /\ times.ok
        /\ times.t.time.value = <<ds.time.sod * 10 + ds.time.frac>>
        /\ times.t.time.value[1] >= 0 /\ times.t.time.value[1] < 864000
        /\ ds.time.frac = 0 =>
              times.t.base_time.value % 86400 = (times.t.time.value[1] \div 10) % 86400
        /\ times.t.time.units =
              <<"seconds since">> \o CivilFromDays(ds.time.day) \o <<0, 0, 0>>
        /\ times.t.time_offset.value = <<0>>
        /\ ds.time = T2024 =>
              /\ times.t.time.value = <<120000>>
              /\ times.t.time.units = <<"seconds since", 2024, 1, 15, 0, 0, 0>>

(***************************************************************************)
(* Properties of the structural pass.                                      *)
(***************************************************************************)
\* C11: every created variable whose schema variable declares a _FillValue
\* with a value (zero included) has that value bound as its fill value, and
\* a value the mapped pass wrote for it holds that value in place of every
\* masked or NaN source element.
C11_DeclaredFillBound ==
    \A n \in DOMAIN nc.vars :
        LET v == VarNamed(dod.variables, n)
        IN  v.fill # None =>
                /\ nc.vars[n].fill = v.fill
                /\ nc.vars[n].by \in DOMAIN ds.vars =>
                      \A j \in DOMAIN nc.vars[n].data :
                          ds.vars[nc.vars[n].by][j].k \in {"masked", "nan"} =>
                              nc.vars[n].data[j] = CastElem(v.fill, v.dtype)

(***************************************************************************)
(* Schema parser: _parse_dod and _parse_attribute_value.                   *)
(*                                                                         *)
(* A line of the template is [kind, indent, key, hint, val, dims, dtype]:  *)
(* blank, a line that starts with '#', `key[:hint] = val`, the declaration *)
(* `key(dims):dtype`, or a bare `key[:hint]`. The text right of '=' is     *)
(* [t, n, ns, s, quoted]: an integer literal, a decimal literal (n in      *)
(* tenths), a comma-separated list of integers, or a word or quoted string.*)
(* A parsed value is [t, n, ns, s, lit]: a float (n in tenths), an int, a  *)
(* tuple of ints, None, or the string that spells a text of kind lit.      *)
(***************************************************************************)
IntText(n) == [t |-> "int", n |-> n, ns |-> <<>>, s |-> "", quoted |-> FALSE]
DecText(tenths) == [t |-> "dec", n |-> tenths, ns |-> <<>>, s |-> "", quoted |-> FALSE]
ListText(ns) == [t |-> "list", n |-> 0, ns |-> ns, s |-> "", quoted |-> FALSE]
StrText(str) == [t |-> "str", n |-> 0, ns |-> <<>>, s |-> str, quoted |-> TRUE]
WordText(str) == [t |-> "str", n |-> 0, ns |-> <<>>, s |-> str, quoted |-> FALSE]

FloatVal(tenths) == [t |-> "float", n |-> tenths, ns |-> <<>>, s |-> "", lit |-> ""]
IntVal(n) == [t |-> "int", n |-> n, ns |-> <<>>, s |-> "", lit |-> ""]
TupleVal(ns) == [t |-> "tuple", n |-> 0, ns |-> ns, s |-> "", lit |-> ""]
NoneVal == [t |-> "none", n |-> 0, ns |-> <<>>, s |-> "", lit |-> ""]
\* the Python string holding the characters of an unquoted text
StrVal(text) == [t |-> "str", n |-> text.n, ns |-> text.ns, s |-> text.s, lit |-> text.t]
EmptyString == StrVal(WordText(""))

\* value_str.strip().strip('"')
StripQuotes(text) == [text EXCEPT !.quoted = FALSE]

\* float(value): defined on integer and decimal literals
FloatRaises(text) == text.quoted \/ text.t \notin {"int", "dec"}
ToFloat(text) == FloatVal(IF text.t = "int" THEN text.n * 10 ELSE text.n)
\* int(value): defined on integer literals
IntRaises(text) == text.quoted \/ text.t # "int"
ToInt(text) == IntVal(text.n)

\* lines 13-35: [raise, name, value] for the key `key[:hint]` and the text
ParseAttributeValue(key, hint, text) ==
    LET value == StripQuotes(text)
        Ok(v) == [raise |-> FALSE, name |-> key, value |-> v]
        ValueError == [raise |-> TRUE, name |-> key, value |-> NoneVal]
    IN  IF hint # ""
        THEN IF hint \in {"float", "double"}
             THEN (IF FloatRaises(value) THEN ValueError ELSE Ok(ToFloat(value)))
             ELSE IF hint \in {"short", "int"}
             THEN (IF value.t = "list" THEN Ok(TupleVal(value.ns))
                   ELSE IF IntRaises(value) THEN ValueError ELSE Ok(ToInt(value)))
             ELSE IF hint = "byte"
             THEN (IF IntRaises(value) THEN ValueError ELSE Ok(ToInt(value)))
             ELSE Ok(StrVal(value))
        ELSE Ok(StrVal(value))

\* the characters left of '=' (or the whole bare line)
FullKey(line) == IF line.hint = "" THEN line.key ELSE line.key \o ":" \o line.hint

\* Mutant: dimension and variable lines are read at indent 0 in either region.
InDeclRegionAnywhere(p, line) == line.indent = 0

\* line 53: the branch that reads dimensions and variable declarations
InDeclRegion(p, line) == ~p.in_globals /\ line.indent = 0

\* lines 54-71 for one line at indent 0 of the declaration region
DeclLine(p, line) ==
    LET q == [p EXCEPT !.current_var = ""]
    IN  IF line.kind = "assign" /\ line.hint = ""
        THEN IF line.val = WordText("UNLIMITED")
             THEN [q EXCEPT !.dims = Put(p.dims, line.key, NoneVal)]
             ELSE IF IntRaises(line.val) THEN [q EXCEPT !.status = "raised"]
             ELSE [q EXCEPT !.dims = Put(p.dims, line.key, ToInt(line.val))]
        ELSE IF line.kind = "decl"
        THEN [q EXCEPT !.variables = Put(p.variables, line.key,
                           [dtype |-> line.dtype, dims |-> line.dims, attrs |-> <<>>]),
                       !.current_var = line.key]
        ELSE q

\* lines 73-83: an attribute line of the current variable
AttrLine(p, line) ==
    LET cur == p.variables[p.current_var]
        Store(k, v) == [p EXCEPT !.variables =
                           Put(p.variables, p.current_var,
                               [cur EXCEPT !.attrs = Put(cur.attrs, k, v)])]
    IN  IF line.kind = "assign"
        THEN LET r == ParseAttributeValue(line.key, line.hint, line.val)
             IN  IF r.raise THEN [p EXCEPT !.status = "raised"]
                 ELSE Store(r.name, r.value)
        ELSE Store(line.key, EmptyString)

\* lines 85-89: a line of the global region
GlobalLine(p, line) ==
    IF line.kind = "assign"
    THEN [p EXCEPT !.globals = Put(p.globals, FullKey(line), StrVal(StripQuotes(line.val)))]
    ELSE [p EXCEPT !.globals = Put(p.globals, FullKey(line), EmptyString)]

\* lines 44-89: the body of the loop for one line
ParseStep(p, line) ==
    IF line.kind = "blank" THEN p
    ELSE IF line.kind = "hash" THEN [p EXCEPT !.in_globals = TRUE, !.current_var = ""]
    ELSE IF InDeclRegion(p, line) THEN DeclLine(p, line)
    ELSE IF line.indent = 4 /\ p.current_var # "" THEN AttrLine(p, line)
    ELSE IF p.in_globals /\ line.indent = 2 THEN GlobalLine(p, line)
    ELSE p

writeVars == <<pc, env, schema, config, config0, ds, dod, missing, err, failedAt,
               nc, file, idx, times>>

\* one iteration of `for raw in lines`
ParseLine ==
    /\ parser.status = "run"
    /\ parser.pos <= Len(parser.lines)
    /\ LET q == ParseStep(parser, parser.lines[parser.pos])
       IN  parser' = IF q.status = "raised" THEN q ELSE [q EXCEPT !.pos = parser.pos + 1]
    /\ UNCHANGED <<writeVars, retry, conc, batch>>

\* line 91: return {"dimensions": dims, "variables": variables, "globals": globals_}
ParseReturn ==
    /\ parser.status = "run"
    /\ parser.pos > Len(parser.lines)
    /\ parser' = [parser EXCEPT !.status = "returned"]
    /\ UNCHANGED <<writeVars, retry, conc, batch>>

NextParse ==
    \/ ParseLine
    \/ ParseReturn

MaxLines == 3       \* lines of a template

\* the templates read: structural lines in every order, and a declaration
\* followed by one hinted or unhinted attribute line
Templates ==
    LET Line(kind, indent, key, hint, val, dims, dtype) ==
            [kind |-> kind, indent |-> indent, key |-> key, hint |-> hint, val |-> val,
             dims |-> dims, dtype |-> dtype]
        Blank == Line("blank", 0, "", "", WordText(""), <<>>, "")
        Hash(indent) == Line("hash", indent, "", "", WordText(""), <<>>, "")
        Assign(indent, key, hint, val) == Line("assign", indent, key, hint, val, <<>>, "")
        Decl(key, dims, dtype) == Line("decl", 0, key, "", WordText(""), dims, dtype)
        Bare(indent, key) == Line("bare", indent, key, "", WordText(""), <<>>, "")
        DeclRefl == Decl("refl", <<"x">>, "float")
        StructLines ==
            {Blank, Hash(0), Hash(4),
             Assign(0, "x", "", IntText(10)), Assign(0, "time", "", WordText("UNLIMITED")),
             Assign(0, "x", "", WordText("ten")),
             DeclRefl, Decl("base_time", <<>>, "int"),
             Assign(4, "units", "", StrText("dBZ")), Bare(4, "long_name"),
             Assign(2, "doi", "", StrText("10.5439/2530631")), Bare(2, "site_id")}
        Hints == {"", "float", "double", "short", "int", "byte", "char"}
        AttrTexts == {IntText(-9999), DecText(25), ListText(<<1, 2>>), StrText("dBZ"),
                      [IntText(7) EXCEPT !.quoted = TRUE]}
        AttrLines == {Assign(4, "flag_values", h, v) : h \in Hints, v \in AttrTexts}
    IN  SeqsUpTo(StructLines, MaxLines)
            \cup {<<DeclRefl, a>> \o tail :
                     a \in AttrLines,
                     tail \in SeqsUpTo({Hash(0), Bare(4, "flag_values")}, MaxLines - 2)}

\* the write pipeline at rest
NoWrite ==
    /\ env = DefaultEnv
    /\ schema = [ok |-> TRUE, globals |-> <<>>, variables |-> <<>>]
    /\ config = [attrs |-> <<>>, hasMapping |-> TRUE, mapping |-> <<>>]
    /\ config0 = config
    /\ ds = [vars |-> <<>>, attrs |-> <<>>, time |-> T2024]
    /\ pc = "idle"
    /\ dod = NoDod
    /\ missing = <<>>
    /\ err = "none"
    /\ failedAt = "none"
    /\ nc = NoNc
    /\ file = "absent"
    /\ idx = 0
    /\ times = NoTimes

InitParse ==
    /\ NoWrite
    /\ parser \in {[NoParser EXCEPT !.lines = t, !.pos = 1, !.status = "run"] :
                      t \in Templates}
    /\ retry = NoRetry
    /\ conc = NoConc
    /\ batch = NoBatch

SpecParse == InitParse /\ [][NextParse]_vars

(***************************************************************************)
(* Properties of the parser (checked under SpecParse).                     *)
(***************************************************************************)
\* C12: every Schema the parser returns has each dimension name listed in a
\* variable's dims among the keys of its dimensions, whatever the order of
\* the lines.
C12_DimsDeclared ==
    parser.status = "returned" =>
        \A v \in DOMAIN parser.variables :
            \A i \in DOMAIN parser.variables[v].dims :
                parser.variables[v].dims[i] \in DOMAIN parser.dims

\* what C16 says is stored for `key:hint = text`
HintedValue(hint, text) ==
    IF hint \in {"float", "double"}
    THEN FloatVal(IF text.t = "int" THEN text.n * 10 ELSE text.n)
    ELSE IF hint \in {"short", "int", "byte"}
    THEN (IF text.t = "list" THEN TupleVal(text.ns) ELSE IntVal(text.n))
    ELSE StrVal(StripQuotes(text))
\* the values C16 speaks of: numbers for float and double, integers and
\* comma-separated integers for short, int and byte, anything without a hint
HintedScope(hint, text) ==
    \/ hint \in {"float", "double"} /\ text.t \in {"int", "dec"}
    \/ hint \in {"short", "int", "byte"} /\ text.t \in {"int", "list"}
    \/ hint = ""

\* C16: an attribute line `key:hint = value` of a declared variable is stored
\* under the key without the hint, as a float for float/double, as an integer
\* (no comma) or a tuple of integers (commas) for each of short, int and byte,
\* and as the unquoted string when the key has no hint; parsing it does not
\* fail.
C16_HintedAttributeTyped ==
    (/\ parser.status # "idle" /\ Len(parser.lines) >= 2
     /\ parser.lines[1].kind = "decl" /\ parser.lines[1].key = "refl"
     /\ parser.lines[2].kind = "assign" /\ parser.lines[2].indent = 4
     /\ HintedScope(parser.lines[2].hint, parser.lines[2].val)) =>
        LET line == parser.lines[2]
        IN  /\ ~(parser.status = "raised" /\ parser.pos = 2)
            /\ parser.pos = 3 =>
                  /\ DOMAIN parser.variables["refl"].attrs = {line.key}
                  /\ parser.variables["refl"].attrs[line.key] =
                        HintedValue(line.hint, line.val)

\* C17: the parser starts in the declaration region; a line that starts with
\* '#' puts it in the global region and clears the current variable; it never
\* leaves the global region; no line read in the global region changes the
\* dimensions, the variables or their attributes; no line read in the
\* declaration region changes the globals.
C17_RegionMonotonic ==
    /\ [](parser.pos <= 1 => ~parser.in_globals)
    /\ [][(parser.status = "run" /\ parser.pos <= Len(parser.lines)) =>
             LET line == parser.lines[parser.pos]
             IN  /\ parser.in_globals =>
                       /\ parser'.in_globals
                       /\ parser'.dims = parser.dims
                       /\ parser'.variables = parser.variables
                 /\ ~parser.in_globals => parser'.globals = parser.globals
                 /\ line.kind = "hash" =>
                       parser'.in_globals /\ parser'.current_var = ""
                 /\ (~parser.in_globals /\ line.kind # "hash") => ~parser'.in_globals
         ]_vars

C17_Witness ==
    /\ parser.status = "returned"
    /\ Len(parser.lines) = 3
    /\ parser.lines[1].kind = "bare" /\ parser.lines[1].indent = 2
    /\ parser.lines[2].kind = "hash" /\ parser.lines[2].indent = 0
    /\ parser.lines[3].kind = "assign" /\ parser.lines[3].indent = 0
    /\ parser.lines[3].key = "x" /\ parser.lines[3].val = IntText(10)
    /\ parser.in_globals
    /\ parser.dims = <<>>
    /\ parser.globals = <<>>

(***************************************************************************)
(* A write repeated at the same output path after a failed one, as a       *)
(* caller does that retries write_ds_to_nc with the inputs of the failed   *)
(* call. Everything write_ds_to_nc computes is local to the call; what     *)
(* outlives a failed call is the file on disk, the RunConfig object and,   *)
(* while the exception or its traceback is referenced, the Dataset object  *)
(* the call left open.                                                     *)
(***************************************************************************)
MaxAttempts == 2    \* writes at one output path

Retry ==
    /\ pc = "failed"
    /\ retry.attempt < MaxAttempts
    /\ pc' = "start"
    /\ dod' = NoDod
    /\ missing' = <<>>
    /\ err' = "none"
    /\ failedAt' = "none"
    /\ idx' = 0
    /\ times' = NoTimes
    /\ nc' = NoNc
    /\ \E live \in BOOLEAN :
          /\ live => (nc.handle = "open" \/ retry.leaked)
          /\ retry' = [attempt |-> retry.attempt + 1, leaked |-> live]
    /\ env' \in {env, [env EXCEPT !.now = "2024-01-15 03:22:00 UTC"]}
    /\ UNCHANGED <<schema, config, config0, ds, file, parser, conc, batch>>

NextRetry ==
    \/ ParseDod
    \/ UpdateDodGlobals
    \/ UpdateDodTimeAttributes
    \/ CreateNcStructure
    \/ SetFields
    \/ BeginValuePass
    \/ WriteMapped
    \/ WriteTimes
    \/ WriteRadarMeta
    \/ Close
    \/ WriteFails
    \/ Retry

InitRetry ==
    /\ env = DefaultEnv
    /\ schema \in [ok : BOOLEAN, globals : {<<[key |-> "doi", val |-> ""]>>},
                   variables : {<<HpFhc("float", Num(-99)), TimeVar(Empty), RadarLat>>}]
    /\ config \in [attrs : {<<>>, [a \in {"doi"} |-> CfgVal("str", "10.5439/2530631")]},
                   hasMapping : BOOLEAN,
                   mapping : {DefaultMapping, <<<<"hp_fhc_summer", "radar_lat">>>>}]
    /\ ds \in [vars : {VarsOf(a, <<Num(7)>>) : a \in {<<Num(130), Masked>>, <<Cftime>>}},
               attrs : OriginAttrs, time : {T2024}]
    /\ file \in {"absent", "prior"}
    /\ config0 = config
    /\ pc = "start"
    /\ dod = NoDod
    /\ missing = <<>>
    /\ err = "none"
    /\ failedAt = "none"
    /\ nc = NoNc
    /\ idx = 0
    /\ times = NoTimes
    /\ Idle

SpecRetry == InitRetry /\ [][NextRetry]_vars

(***************************************************************************)
(* Properties of a retried write (checked under SpecRetry).                *)
(***************************************************************************)
\* the variables of the file after the mapped pass from entry i on
RECURSIVE AfterMapped(_, _)
AfterMapped(created, i) ==
    IF i > Len(config.mapping) THEN created
    ELSE LET entry == config.mapping[i]
         IN  IF Skipped(entry, ds, created) THEN AfterMapped(created, i + 1)
             ELSE AfterMapped(
                      [created EXCEPT
                          ![entry[2]].data = Prepare(ds.vars[entry[1]], created[entry[2]]).data,
                          ![entry[2]].by = entry[1]],
                      i + 1)

\* the variables of the file one successful write of the inputs produces
SingleWriteVars ==
    LET tm == GetStandardizedTimes(ds.time, env.strict).t
        mapped == AfterMapped(CreateVariables(UpdateTimeAttrs(schema.variables, tm)), 1)
    IN  [n \in DOMAIN mapped |->
            IF n \in TimeVars
            THEN [mapped[n] EXCEPT !.data = TimeValue(tm, n), !.by = "@times"]
            ELSE IF n \in RadarVars
            THEN [mapped[n] EXCEPT !.data = <<RadarValue(ds, n)>>, !.by = "@radar"]
            ELSE mapped[n]]

\* the globals of that file; history carries the time of the write
SingleWriteGlobals ==
    ScanGlobals(schema.globals, DeriveConfig(config0.attrs, env), 1, <<>>).globals

\* a retried write that ran to its end left exactly the single write's file
RetriedFileIsSingleWrite ==
    (retry.attempt >= 2 /\ pc = "done") =>
        /\ file = "complete"
        /\ nc.handle = "closed"
        /\ nc.globals = SingleWriteGlobals
        /\ nc.fields = VariableList(schema.variables, 1)
        /\ nc.vars = SingleWriteVars

\* C13: a write repeated after a failed attempt at the same path starts from
\* scratch and is not hindered by that attempt: it is never refused the
\* output file because of what the failed attempt left behind, it truncates
\* the file, and when it runs to its end the file equals the file of a
\* single successful write.
C13_RetryOverwrites ==
    /\ RetriedFileIsSingleWrite
    /\ retry.attempt >= 2 =>
          /\ ~(pc = "failed" /\ err = "PermissionError")
          /\ pc = "start" => dod = NoDod /\ missing = <<>> /\ times = NoTimes
          /\ pc \in {"created", "enter"} =>
                \A n \in DOMAIN nc.vars : nc.vars[n].data = <<>>

(***************************************************************************)
(* Two calls of _update_dod_globals that run in one process (two threads)  *)
(* and were handed the same RunConfig object. Each call has its own dod    *)
(* and its own locals; conc.config is the one dict both assign into and    *)
(* read from. A writer is [pc, now, globals, pos, missing].                *)
(***************************************************************************)
Writers == {1, 2}

ConcEnv(i) == [env EXCEPT !.now = conc.w[i].now]

\* line 103: config["command_line"] = ...
ConcCommandLine ==
    \E i \in Writers :
        /\ conc.w[i].pc = "command_line"
        /\ conc' = [conc EXCEPT
               !.config = Put(conc.config, "command_line",
                              CfgVal("str", CommandLine(ConcEnv(i)))),
               !.w[i].pc = "history"]
        /\ UNCHANGED <<writeVars, parser, retry, batch>>

\* lines 106-111: config["history"] = f"created on {current_time} on {system_info}"
ConcHistory ==
    \E i \in Writers :
        /\ conc.w[i].pc = "history"
        /\ conc' = [conc EXCEPT
               !.config = Put(conc.config, "history", CfgVal("str", History(ConcEnv(i)))),
               !.w[i].pc = "scan"]
        /\ UNCHANGED <<writeVars, parser, retry, batch>>

\* lines 114-119: one iteration of the loop over dod["globals"]
ConcScan ==
    \E i \in Writers :
        LET w == conc.w[i]
        IN  /\ w.pc = "scan"
            /\ w.pos <= Len(w.globals)
            /\ LET r == ScanGlobals(<<w.globals[w.pos]>>, conc.config, 1, <<>>)
               IN  conc' = [conc EXCEPT
                       !.w[i].globals = [w.globals EXCEPT ![w.pos] = r.globals[1]],
                       !.w[i].missing = w.missing \o r.missing,
                       !.w[i].pos = w.pos + 1]
            /\ UNCHANGED <<writeVars, parser, retry, batch>>

\* lines 121-126: raise ValueError(missing) or return dod
ConcFinish ==
    \E i \in Writers :
        LET w == conc.w[i]
        IN  /\ w.pc = "scan"
            /\ w.pos > Len(w.globals)
            /\ conc' = [conc EXCEPT
                   !.w[i].pc = IF w.missing # <<>> THEN "failed" ELSE "resolved"]
            /\ UNCHANGED <<writeVars, parser, retry, batch>>

NextConc ==
    \/ ConcCommandLine
    \/ ConcHistory
    \/ ConcScan
    \/ ConcFinish

ConcKeys == {"history", "command_line", "doi"}
ConcGlobals ==
    {g \in SeqsUpTo([key : ConcKeys, val : {"", "ARM"}], MaxGlobals) :
        \A i, j \in DOMAIN g : g[i].key = g[j].key => i = j}
ConcTimes == {"2024-01-15 03:21:00 UTC", "2024-01-15 03:21:01 UTC"}

InitConc ==
    /\ NoWrite
    /\ \E g \in ConcGlobals, c \in {<<>>, [a \in {"doi"} |-> CfgVal("str", "10.5439/2530631")]} :
          conc \in [config : {c},
                    w : [Writers -> [pc : {"command_line"}, now : ConcTimes, globals : {g},
                                     pos : {1}, missing : {<<>>}]]]
    /\ parser = NoParser
    /\ retry = NoRetry
    /\ batch = NoBatch

SpecConc == InitConc /\ [][NextConc]_vars

(***************************************************************************)
(* Properties of concurrent writes (checked under SpecConc).               *)
(***************************************************************************)
\* C14: under every interleaving of two writes that were given the same
\* RunConfig object, each global attribute a write has resolved from a
\* derived key holds the value that write derived itself: its own history
\* and its own command_line, never the other write's.
C14_OwnDerivedValues ==
    \A i \in Writers :
        LET w == conc.w[i]
        IN  \A k \in DOMAIN w.globals :
                (k < w.pos /\ w.globals[k].key \in {"history", "command_line"}) =>
                    w.globals[k].val \in
                        {"ARM",
                         IF w.globals[k].key = "history" THEN History(ConcEnv(i))
                         ELSE CommandLine(ConcEnv(i))}

(***************************************************************************)
(* Batch runners: run_hp.main (sequential loop) and run_hp_dask            *)
(* (batch_process_dask over process_single_file_wrapper).                  *)
(*                                                                         *)
(* An input file is [stamp, outcome]: the part of its name after the file  *)
(* pattern, and what processing it does in this run: "ok", process_file    *)
(* raises ("process"), write_ds_to_nc raises before it creates the output  *)
(* file ("early") or after ("late"), or, under dask, the worker dies on    *)
(* every try ("killed"). A file name is [pattern, stamp]. batch is         *)
(* [runner, rerun, inputs, exists, files, status, i, pending, attempted,   *)
(* successes, failures, good, bad, done, results, run, log]. The same      *)
(* input does the same in every run of the program. log records of every   *)
(* attempt the file, the run and whether the output file existed before.   *)
(***************************************************************************)
InName(f) == [pattern |-> "gucxprecipradarcmacppiS2.c1", stamp |-> f.stamp]
\* base.replace(config["input_file_pattern"], config["output_file_pattern"])
OutName(name) ==
    IF name.pattern = "gucxprecipradarcmacppiS2.c1"
    THEN [name EXCEPT !.pattern = "gucxprecipradarcmacppihpS2.c1"]
    ELSE name

\* unprocessed_files / get_unprocessed_files: the inputs whose output file
\* does not exist
UnprocessedFiles(files, exists) ==
    LET Keep(f) == OutName(InName(f)) \notin exists
    IN  SelectSeq(files, Keep)

\* Mutant: the first failure ends the loop (the exception is not contained).
FailedAborts(b) == [b EXCEPT !.failures = b.failures + 1, !.status = "finished"]

\* run_hp lines 79-81: except Exception: log, failures += 1
Failed(b) == [b EXCEPT !.failures = b.failures + 1]

\* run_hp lines 77-78: successes += 1
Succeeded(b) == [b EXCEPT !.successes = b.successes + 1]

\* Mutant: only a completed write leaves an output file.
CreatesOnSuccess(f) == f.outcome = "ok"

\* the output file exists once write_ds_to_nc has called Dataset(path, "w")
Creates(f) == f.outcome \in {"ok", "late"}
Touch(b, k) ==
    [b EXCEPT !.attempted = b.attempted \cup {k},
              !.log = b.log \cup {[stamp |-> b.files[k].stamp, run |-> b.run,
                                   existed |-> OutName(InName(b.files[k])) \in b.exists]},
              !.exists = IF Creates(b.files[k])
                         THEN b.exists \cup {OutName(InName(b.files[k]))}
                         ELSE b.exists]

\* run_hp lines 54-63, run_hp_dask lines 188-195: the files of this run
SelectFiles ==
    /\ batch.status = "select"
    /\ LET files == IF batch.rerun THEN batch.inputs
                    ELSE UnprocessedFiles(batch.inputs, batch.exists)
       IN  batch' = [batch EXCEPT !.files = files,
                                  !.status = IF Len(files) = 0 THEN "exit" ELSE "loop",
                                  !.i = 1]
    /\ UNCHANGED <<writeVars, parser, retry, conc>>

\* run_hp lines 71-81: one iteration of the sequential loop
SeqProcess ==
    /\ batch.runner = "seq"
    /\ batch.status = "loop"
    /\ batch.i <= Len(batch.files)
    /\ LET b == [Touch(batch, batch.i) EXCEPT !.i = batch.i + 1]
       IN  batch' = IF batch.files[batch.i].outcome = "ok" THEN Succeeded(b) ELSE Failed(b)
    /\ UNCHANGED <<writeVars, parser, retry, conc>>

\* run_hp line 83: the loop is over
SeqFinish ==
    /\ batch.runner = "seq"
    /\ batch.status = "loop"
    /\ batch.i > Len(batch.files)
    /\ batch' = [batch EXCEPT !.status = "finished"]
    /\ UNCHANGED <<writeVars, parser, retry, conc>>

BatchSize == 2      \* batch_size of batch_process_dask

\* run_hp_dask lines 117-129: the next chunk of files is submitted
DaskSubmit ==
    /\ batch.runner = "dask"
    /\ batch.status = "loop"
    /\ batch.pending = {}
    /\ batch.i <= Len(batch.files)
    /\ LET last == IF batch.i + BatchSize - 1 <= Len(batch.files)
                   THEN batch.i + BatchSize - 1 ELSE Len(batch.files)
       IN  batch' = [batch EXCEPT !.pending = batch.i..last, !.i = last + 1]
    /\ UNCHANGED <<writeVars, parser, retry, conc>>

\* run_hp_dask lines 136-139: a result came back (None: the wrapper caught a
\* failure, lines 62-64)
DaskResult(b, res) ==
    [b EXCEPT !.results = Append(b.results, res), !.done = b.done + 1,
              !.good = IF res = "None" THEN b.good ELSE b.good + 1,
              !.bad = IF res = "None" THEN b.bad + 1 ELSE b.bad]

\* run_hp_dask lines 140-144: fut.result raised
DaskFutureError(b) ==
    [b EXCEPT !.results = Append(b.results, "None"), !.bad = b.bad + 1,
              !.done = b.done + 1]

\* run_hp_dask lines 131-144 with the task of lines 52-64: one future of the
\* chunk completes, in any order, and is tallied
DaskCollect ==
    /\ batch.runner = "dask"
    /\ batch.status = "loop"
    /\ \E k \in batch.pending :
          LET b == [Touch(batch, k) EXCEPT !.pending = batch.pending \ {k}]
              outcome == batch.files[k].outcome
          IN  batch' = IF outcome = "killed" THEN DaskFutureError(b)
                       ELSE IF outcome = "ok" THEN DaskResult(b, "outname")
                       ELSE DaskResult(b, "None")
    /\ UNCHANGED <<writeVars, parser, retry, conc>>

\* run_hp_dask lines 149-150: every chunk was collected
DaskFinish ==
    /\ batch.runner = "dask"
    /\ batch.status = "loop"
    /\ batch.pending = {}
    /\ batch.i > Len(batch.files)
    /\ batch' = [batch EXCEPT !.status = "finished"]
    /\ UNCHANGED <<writeVars, parser, retry, conc>>

MaxRuns == 2        \* invocations of the runner over the same directories

\* the program is started again on the same data and output directories, with
\* or without --rerun (run_hp lines 32-59, run_hp_dask lines 156-195)
NextRun ==
    /\ batch.status \in {"finished", "exit"}
    /\ batch.run < MaxRuns
    /\ \E rerun \in BOOLEAN :
          batch' = [batch EXCEPT !.status = "select", !.rerun = rerun, !.run = batch.run + 1,
                                 !.files = <<>>, !.i = 0, !.pending = {}, !.attempted = {},
                                 !.successes = 0, !.failures = 0, !.good = 0, !.bad = 0,
                                 !.done = 0, !.results = <<>>]
    /\ UNCHANGED <<writeVars, parser, retry, conc>>

NextBatch ==
    \/ NextRun
    \/ SelectFiles
    \/ SeqProcess
    \/ SeqFinish
    \/ DaskSubmit
    \/ DaskCollect
    \/ DaskFinish

MaxFiles == 3       \* input files in the data directory

Outcomes == {"ok", "process", "early", "late", "killed"}
InputLists ==
    {f \in SeqsUpTo([stamp : 1..MaxFiles, outcome : Outcomes], MaxFiles) :
        \A k \in DOMAIN f : f[k].stamp = k}

InitBatch ==
    /\ NoWrite
    /\ parser = NoParser
    /\ retry = NoRetry
    /\ conc = NoConc
    /\ \E inputs \in InputLists, runner \in {"seq", "dask"}, rerun \in BOOLEAN,
          done \in SUBSET (1..MaxFiles) :
          /\ done \subseteq DOMAIN inputs
          /\ runner = "seq" => \A k \in DOMAIN inputs : inputs[k].outcome # "killed"
          /\ batch = [status |-> "select", runner |-> runner, rerun |-> rerun,
                      inputs |-> inputs,
                      exists |-> {OutName(InName(inputs[k])) : k \in done},
                      files |-> <<>>, i |-> 0, pending |-> {}, attempted |-> {},
                      successes |-> 0, failures |-> 0, good |-> 0, bad |-> 0,
                      done |-> 0, results |-> <<>>, run |-> 1, log |-> {}]

SpecBatch == InitBatch /\ [][NextBatch]_vars

(***************************************************************************)
(* Properties of the batch runners (checked under SpecBatch).              *)
(***************************************************************************)
\* C15: in both runners a failed file does not stop the batch: when the batch
\* ends every selected file has been attempted, and the files counted as
\* succeeded and as failed add up to the number of selected files, each file
\* counted once on the side of its outcome.
C15_EveryFileCounted ==
    batch.status = "finished" =>
        LET n == Len(batch.files)
            ok == Cardinality({k \in 1..n : batch.files[k].outcome = "ok"})
        IN  /\ batch.attempted = 1..n
            /\ batch.runner = "seq" =>
                  /\ batch.successes = ok
                  /\ batch.successes + batch.failures = n
            /\ batch.runner = "dask" =>
                  /\ batch.good = ok
                  /\ batch.good + batch.bad = n
                  /\ batch.done = n /\ Len(batch.results) = n

C15_Witness ==
    /\ batch.status = "finished"
    /\ batch.runner = "seq"
    /\ Len(batch.files) = 3
    /\ batch.files[1].outcome = "late"
    /\ batch.files[2].outcome = "process"
    /\ batch.files[3].outcome = "ok"
    /\ batch.successes = 1
    /\ batch.failures = 2

\* C21: a run without --rerun selects an input exactly when its derived
\* output file does not exist when the run selects its files. So an input
\* that an earlier run attempted and whose write failed after the output file
\* was created (in the value pass) is not selected by a later run without
\* --rerun, and an input that an earlier run attempted with no output file
\* present and that failed before the file is created is selected again.
C21_SelectedIffNoOutput ==
    /\ [][(batch.status = "select" /\ ~batch.rerun) =>
             \A k \in DOMAIN batch.inputs :
                 (\E j \in DOMAIN batch'.files : batch'.files[j] = batch.inputs[k])
                     <=> [pattern |-> "gucxprecipradarcmacppihpS2.c1",
                          stamp |-> batch.inputs[k].stamp] \notin batch.exists
         ]_vars
    /\ []((batch.status \in {"loop", "finished", "exit"} /\ ~batch.rerun) =>
             \A e \in batch.log : \A k \in DOMAIN batch.inputs :
                 (e.run < batch.run /\ batch.inputs[k].stamp = e.stamp) =>
                     LET f == batch.inputs[k]
                         selected == \E j \in DOMAIN batch.files : batch.files[j] = f
                     IN  /\ f.outcome = "late" => ~selected
                         /\ (f.outcome = "early" /\ ~e.existed) => selected)

C21_Witness ==
    /\ batch.status = "finished"
    /\ ~batch.rerun
    /\ batch.run = 2
    /\ Len(batch.inputs) = 3
    /\ batch.inputs[1].outcome = "late"
    /\ batch.inputs[2].outcome = "early"
    /\ batch.inputs[3].outcome = "ok"
    /\ batch.log = {[stamp |-> 1, run |-> 1, existed |-> FALSE],
                    [stamp |-> 2, run |-> 1, existed |-> FALSE],
                    [stamp |-> 3, run |-> 1, existed |-> FALSE],
                    [stamp |-> 2, run |-> 2, existed |-> FALSE]}
    /\ batch.files = <<batch.inputs[2]>>
    /\ batch.failures + batch.bad = 1

(***************************************************************************)
(* Writes over schemas that differ in the per-variable attributes and in   *)
(* the radar metadata variables they declare.                              *)
(***************************************************************************)
InitMeta ==
    /\ env = DefaultEnv
    /\ LET AttrChoices(keys, vals) == UNION {[K -> vals] : K \in {keys}}
           TimeVarWith(attrs) ==
               [name |-> "time", dtype |-> "double", fill |-> None, attrs |-> attrs]
           HpFhcWith(attrs) ==
               [name |-> "hp_fhc", dtype |-> "float", fill |-> Num(-99), attrs |-> attrs]
           TimeOffsetWith(attrs) ==
               [name |-> "time_offset", dtype |-> "double", fill |-> None, attrs |-> attrs]
           RadarLon ==
               [name |-> "radar_lon", dtype |-> "float", fill |-> None, attrs |-> NoAttrs]
           MetaVariableLists ==
               {<<HpFhcWith(h), TimeVarWith(t)>> \o o \o r :
                   h \in AttrChoices({"units", "string"}, {Empty, <<"1">>}),
                   t \in AttrChoices({"units", "string", "long_name"}, {Empty, <<"set">>}),
                   o \in {<<>>, <<TimeOffsetWith([a \in {"units", "string"} |-> Empty])>>},
                   r \in {<<>>, <<RadarLat>>, <<RadarLat, RadarLon>>}}
       IN  schema \in [ok : {TRUE}, globals : {<<[key |-> "doi", val |-> ""]>>},
                       variables : MetaVariableLists]
    /\ config \in [attrs : {[a \in {"doi"} |-> CfgVal("str", "10.5439/2530631")]},
                   hasMapping : {TRUE},
                   mapping : {DefaultMapping,
                              <<<<"hp_fhc_summer", "radar_lat">>,
                                <<"hp_fhc_winter", "radar_lon">>>>}]
    /\ ds \in [vars : {VarsOf(<<Num(130), Masked>>, <<Num(7)>>)},
               attrs : UNION {[K -> {Num(38)}] :
                                 K \in SUBSET {"origin_latitude", "origin_longitude"}},
               time : {T2024}]
    /\ file = "absent"
    /\ config0 = config
    /\ pc = "start"
    /\ dod = NoDod
    /\ missing = <<>>
    /\ err = "none"
    /\ failedAt = "none"
    /\ nc = NoNc
    /\ idx = 0
    /\ times = NoTimes
    /\ Idle

SpecMeta == InitMeta /\ [][Next]_vars

(***************************************************************************)
(* Properties of the per-variable attributes and the radar metadata        *)
(* (checked under SpecMeta).                                               *)
(***************************************************************************)
\* C18: time-attribute injection changes an attribute only if it belongs to
\* base_time, time_offset or time, is empty and is named like one of that
\* variable's normalizer outputs; it changes nothing else of the schema (no
\* global, no other attribute, no variable's name, type or fill value), and
\* a variable that is not a time variable is created with exactly the
\* attributes the schema gave it, the empty ones still empty.
C18_OnlyEmptyTimeAttrsInjected ==
    /\ [](\A n \in DOMAIN nc.vars :
             n \notin TimeVars => nc.vars[n].attrs = VarNamed(schema.variables, n).attrs)
    /\ [][pc = "resolved" =>
             /\ dod'.globals = dod.globals
             /\ Len(dod'.variables) = Len(dod.variables)
             /\ \A i \in DOMAIN dod.variables :
                   LET v == dod.variables[i]
                       w == dod'.variables[i]
                   IN  /\ w.name = v.name /\ w.dtype = v.dtype /\ w.fill = v.fill
                       /\ DOMAIN w.attrs = DOMAIN v.attrs
                       /\ \A a \in DOMAIN v.attrs :
                             w.attrs[a] # v.attrs[a] =>
                                 /\ v.name \in {"base_time", "time_offset", "time"}
                                 /\ v.attrs[a] = Empty
                                 /\ a \in {"value", "units", "string"}
                                 /\ v.name = "time_offset" => a # "string"
         ]_vars

C18_Witness ==
    /\ pc = "done"
    /\ VarNamed(schema.variables, "time").attrs =
          [a \in {"units", "string", "long_name"} |->
              IF a = "string" THEN <<"set">> ELSE Empty]
    /\ VarNamed(dod.variables, "time").attrs["units"] =
          <<"seconds since", 2024, 1, 15, 0, 0, 0>>
    /\ VarNamed(dod.variables, "time").attrs["string"] = <<"set">>
    /\ VarNamed(dod.variables, "time").attrs["long_name"] = Empty
    /\ "time_offset" \in Names(schema.variables)
    /\ VarNamed(dod.variables, "time_offset").attrs["units"] # Empty
    /\ VarNamed(dod.variables, "time_offset").attrs["string"] = Empty
    /\ nc.vars["hp_fhc"].attrs["units"] = Empty

\* C19: after a successful write each of radar_lat, radar_lon and radar_alt
\* that the schema declares holds the Dataset attribute origin_latitude,
\* origin_longitude or origin_altitude when present and 0.0 otherwise,
\* whatever the mapped pass wrote into it; one the schema does not declare
\* is not in the file.
C19_RadarMetaFromAttrs ==
    pc = "done" =>
        \A n \in {"radar_lat", "radar_lon", "radar_alt"} :
            LET origin == IF n = "radar_lat" THEN "origin_latitude"
                          ELSE IF n = "radar_lon" THEN "origin_longitude"
                          ELSE "origin_altitude"
            IN  IF n \in Names(schema.variables)
                THEN /\ n \in DOMAIN nc.vars
                     /\ nc.vars[n].data =
                           <<IF origin \in DOMAIN ds.attrs THEN ds.attrs[origin] ELSE Num(0)>>
                ELSE n \notin DOMAIN nc.vars

C19_Witness ==
    /\ pc = "done"
    /\ config.mapping[1] = <<"hp_fhc_summer", "radar_lat">>
    /\ DOMAIN ds.attrs = {"origin_latitude"}
    /\ "radar_lon" \in DOMAIN nc.vars
    /\ nc.vars["radar_lat"].data = <<Num(38)>>
    /\ nc.vars["radar_lon"].data = <<Num(0)>>
    /\ "radar_alt" \notin DOMAIN nc.vars
====
